---- MODULE Spec2Model ----
(***************************************************************************)
(* Model of app.py, the Streamlit script of StockSentimentApp: one run of  *)
(* the script from the ticker input to the Key Insights panel.             *)
(*                                                                         *)
(* Text is a sequence of one-character strings.  A Python value that may   *)
(* be None, a str or a number is a record [type, chars, num].  Polarities  *)
(* are integers in hundredths (0.05 is 5), and the mean is kept as the     *)
(* pair [sum, n] so that comparisons with the threshold are exact.         *)
(***************************************************************************)
EXTENDS Integers, Sequences, FiniteSets, TLC

\* ---------------------------------------------------------------- bounds
\* Longest text the user types in the sidebar.
MaxTickerLen == 2
\* Longest list the provider returns (above the slice of 20).
MaxNews == 21

\* ------------------------------------------------------ program constants
NewsLimit == 20
LabelBudget == 50
LabelKeep == 47
Threshold == 5

\* ------------------------------------------------------------ Python values
None == [type |-> "none", chars |-> <<>>, num |-> 0]

Str(s) == [type |-> "str", chars |-> s, num |-> 0]

Num(n) == [type |-> "int", chars |-> <<>>, num |-> n]

\* bool(v), as used by `if title:`
Truthy(v) ==
    CASE v.type = "none" -> FALSE
      [] v.type = "str" -> v.chars # <<>>
      [] v.type = "int" -> v.num # 0

\* --------------------------------------------------------------- str.upper
LowerLetters ==
    <<"a","b","c","d","e","f","g","h","i","j","k","l","m",
      "n","o","p","q","r","s","t","u","v","w","x","y","z">>

UpperLetters ==
    <<"A","B","C","D","E","F","G","H","I","J","K","L","M",
      "N","O","P","Q","R","S","T","U","V","W","X","Y","Z">>

UpperChar(c) ==
    IF \E i \in DOMAIN LowerLetters : LowerLetters[i] = c
    THEN UpperLetters[CHOOSE i \in DOMAIN LowerLetters : LowerLetters[i] = c]
    ELSE c

Upper(s) == [i \in 1..Len(s) |-> UpperChar(s[i])]

\* ------------------------------------------------------------ user input
TickerChars == {"a", "B"}

RECURSIVE TextsUpTo(_)
TextsUpTo(n) ==
    IF n = 0 THEN {<<>>}
    ELSE TextsUpTo(n - 1) \cup
         {Append(s, c) : s \in {t \in TextsUpTo(n - 1) : Len(t) = n - 1},
                         c \in TickerChars}

TickerInputs == TextsUpTo(MaxTickerLen)

\* ------------------------------------------------------ placeholder texts
SurgesText ==
    <<" ","s","t","o","c","k"," ","s","u","r","g","e","s"," ","a","f","t",
      "e","r"," ","e","a","r","n","i","n","g","s"," ","r","e","p","o","r","t">>

FacesText ==
    <<" ","f","a","c","e","s"," ","r","e","g","u","l","a","t","o","r","y",
      " ","i","n","v","e","s","t","i","g","a","t","i","o","n">>

StableText ==
    <<" ","m","a","r","k","e","t"," ","p","e","r","f","o","r","m","a","n",
      "c","e"," ","s","t","a","b","l","e"," ","t","o","d","a","y">>

NoNewsText ==
    <<"N","o"," ","s","i","g","n","i","f","i","c","a","n","t"," ","n","e",
      "w","s"," ","f","o","r"," ">>

\* the list of the `if not headlines:` branch
PlaceholdersEmptyMut(t) ==
    << Str(t \o FacesText), Str(t \o SurgesText),
       Str(t \o StableText), Str(NoNewsText \o t) >>

PlaceholdersEmpty(t) ==
    << Str(t \o SurgesText), Str(t \o FacesText),
       Str(t \o StableText), Str(NoNewsText \o t) >>

\* the list of the `except` branch
PlaceholdersExcept(t) ==
    << Str(t \o SurgesText), Str(t \o FacesText),
       Str(t \o StableText), Str(NoNewsText \o t) >>

\* ------------------------------------------------------- provider's items
Filler(i) == <<"x", "y", "z">>[(i % 3) + 1]

TitleUp == <<"w", "i", "n">>

TitleDown == [i \in 1..(LabelBudget + 1) |-> IF i = 1 THEN "b" ELSE Filler(i)]

TitleFlat == [i \in 1..LabelBudget |-> Filler(i)]

Dict(v) == [isdict |-> TRUE, has_title |-> TRUE, title |-> v]

ItemNoTitle == [isdict |-> TRUE, has_title |-> FALSE, title |-> None]

ItemNotDict == [isdict |-> FALSE, has_title |-> FALSE, title |-> None]

Items ==
    { Dict(Str(TitleUp)), Dict(Str(TitleDown)), Dict(Str(TitleFlat)),
      Dict(Str(<<>>)), Dict(Str(<<" ">>)), Dict(Num(7)),
      ItemNoTitle, ItemNotDict }

\* A feed repeats one item, alternates two, or cycles through two with an
\* item without title between them.
Patterns ==
    {<<a>> : a \in Items} \cup
    {<<a, b>> : a \in Items, b \in Items} \cup
    {<<a, ItemNoTitle, b>> : a \in Items, b \in Items}

Feed(p, n) == [i \in 1..n |-> p[((i - 1) % Len(p)) + 1]]

\* What yf.Ticker(ticker).news does: raises, or returns a list.
ProviderOutcomes ==
    {[raises |-> TRUE, news |-> <<>>]} \cup
    {[raises |-> FALSE, news |-> Feed(p, n)] : p \in Patterns, n \in 0..MaxNews}

\* ------------------------------------------------------------- fetch block
Min(a, b) == IF a < b THEN a ELSE b

\* news[:20]
SliceMut(news) == news

Slice(news) == SubSeq(news, 1, Min(Len(news), NewsLimit))

\* item.get('title', None)
Get(item) == IF item.has_title THEN item.title ELSE None

\* the loop `for item in news_items`, when no item raises
RECURSIVE TitlesMut(_)
TitlesMut(items) ==
    IF items = <<>> THEN <<>>
    ELSE LET title == Get(Head(items)) IN
         IF Truthy(title) THEN TitlesMut(Tail(items)) \o <<title>>
         ELSE TitlesMut(Tail(items))

RECURSIVE Titles(_)
Titles(items) ==
    IF items = <<>> THEN <<>>
    ELSE LET title == Get(Head(items)) IN
         IF Truthy(title) THEN <<title>> \o Titles(Tail(items))
         ELSE Titles(Tail(items))

\* item.get raises AttributeError on an item that is no dict
LoopRaises(items) == \E i \in 1..Len(items) : ~items[i].isdict

\* The try/except of the fetch: what it leaves in headlines, whether
\* st.warning ran, the exception caught and the branch taken.
TryFetch(t, outcome) ==
    IF outcome.raises
    THEN [news_items |-> <<>>, headlines |-> PlaceholdersExcept(t),
          warned |-> TRUE, e |-> "Exception", path |-> "except"]
    ELSE LET items == Slice(outcome.news) IN
         IF LoopRaises(items)
         THEN [news_items |-> items, headlines |-> PlaceholdersExcept(t),
               warned |-> TRUE, e |-> "AttributeError", path |-> "except"]
         ELSE IF Titles(items) = <<>>
         THEN [news_items |-> items, headlines |-> PlaceholdersEmpty(t),
               warned |-> FALSE, e |-> "none", path |-> "empty"]
         ELSE [news_items |-> items, headlines |-> Titles(items),
               warned |-> FALSE, e |-> "none", path |-> "live"]

\* ----------------------------------------------------------------- scoring
\* TextBlob's lexicon lies outside the repository.  Its shape is kept: the
\* polarity is the mean of the lexicon values of the sentiment-bearing
\* tokens of the text, and 0 when there is none.
Lexicon(c) ==
    CASE c = "w" -> 10
      [] c = "b" -> -10
      [] OTHER -> 0

RECURSIVE LexSum(_)
LexSum(s) == IF s = <<>> THEN 0 ELSE Lexicon(Head(s)) + LexSum(Tail(s))

Bearing(s) == Cardinality({i \in 1..Len(s) : Lexicon(s[i]) # 0})

Polarity(s) == IF Bearing(s) = 0 THEN 0 ELSE LexSum(s) \div Bearing(s)

\* TextBlob(h) raises TypeError when h is no str
ScoreRaises(h) == h.type # "str"

RECURSIVE SeqSum(_)
SeqSum(s) == IF s = <<>> THEN 0 ELSE Head(s) + SeqSum(Tail(s))

CountPos(s) == Cardinality({i \in 1..Len(s) : s[i] > 0})

CountNeg(s) == Cardinality({i \in 1..Len(s) : s[i] < 0})

CountNeuMut(s) == Cardinality({i \in 1..Len(s) : s[i] >= 0})

CountNeu(s) == Cardinality({i \in 1..Len(s) : s[i] = 0})

\* ------------------------------------------------------------ presentation
Dots == <<".", ".", ".">>

ShortLabelMut(h) ==
    IF Len(h) < LabelBudget THEN h ELSE SubSeq(h, 1, LabelKeep) \o Dots

ShortLabel(h) ==
    IF Len(h) <= LabelBudget THEN h ELSE SubSeq(h, 1, LabelKeep) \o Dots

\* df['Sentiment'].mean()
Mean(s) == [sum |-> SeqSum(s), n |-> Len(s)]

\* avg > 0.05 and avg < -0.05, on the exact mean
Above(avg) == avg.sum > Threshold * avg.n

Below(avg) == avg.sum < (0 - Threshold) * avg.n

OverallSentimentMut(avg) ==
    IF avg.sum >= Threshold * avg.n THEN "Positive"
    ELSE IF Below(avg) THEN "Negative"
    ELSE "Neutral"

OverallSentiment(avg) ==
    IF Above(avg) THEN "Positive"
    ELSE IF Below(avg) THEN "Negative"
    ELSE "Neutral"

Banner(avg) ==
    IF Above(avg) THEN "favorable"
    ELSE IF Below(avg) THEN "unfavorable"
    ELSE "neutral"

\* ------------------------------------------------------------------- state
VARIABLES
    pc,                 \* position of the script
    ticker,             \* the upper-cased sidebar input
    provided,           \* length of the list the provider returned
    news_items,         \* the sliced list
    headlines,
    e,                  \* the exception the except clause caught, or "none"
    warned,             \* st.warning was shown
    path,               \* branch of the fetch block: live, empty, except
    sentiments,         \* the scores so far, in headline order
    calls,              \* number of TextBlob(h) evaluations
    pos, neg, neu,
    short_labels,
    avg_sentiment,
    overall_sentiment,
    banner,
    total,              \* "Total Articles Analyzed"
    insights            \* what the Key Insights panel wrote

vars ==
    <<pc, ticker, provided, news_items, headlines, e, warned, path,
      sentiments, calls, pos, neg, neu, short_labels, avg_sentiment,
      overall_sentiment, banner, total, insights>>

fetchVars == <<provided, news_items, headlines, e, warned, path>>

scoreVars == <<sentiments, calls>>

countVars == <<pos, neg, neu>>

panelVars == <<avg_sentiment, overall_sentiment, banner, total, insights>>

Init ==
    /\ pc = "input"
    /\ ticker = <<>>
    /\ provided = 0
    /\ news_items = <<>>
    /\ headlines = <<>>
    /\ e = "none"
    /\ warned = FALSE
    /\ path = "none"
    /\ sentiments = <<>>
    /\ calls = 0
    /\ pos = 0
    /\ neg = 0
    /\ neu = 0
    /\ short_labels = <<>>
    /\ avg_sentiment = [sum |-> 0, n |-> 0]
    /\ overall_sentiment = "none"
    /\ banner = "none"
    /\ total = 0
    /\ insights = "none"

\* ticker = st.sidebar.text_input(...).upper()
ReadTicker ==
    /\ pc = "input"
    /\ \E typed \in TickerInputs : ticker' = Upper(typed)
    /\ pc' = "fetch"
    /\ UNCHANGED <<fetchVars, scoreVars, countVars, short_labels, panelVars>>

\* the try/except block
FetchNews ==
    /\ pc = "fetch"
    /\ \E outcome \in ProviderOutcomes :
         LET r == TryFetch(ticker, outcome) IN
         /\ provided' = Len(outcome.news)
         /\ news_items' = r.news_items
         /\ headlines' = r.headlines
         /\ e' = r.e
         /\ warned' = r.warned
         /\ path' = r.path
    /\ pc' = "score"
    /\ UNCHANGED <<ticker, scoreVars, countVars, short_labels, panelVars>>

\* one step of [TextBlob(h).sentiment.polarity for h in headlines]; an
\* exception is caught nowhere and ends the run
ScoreNext ==
    /\ pc = "score"
    /\ Len(sentiments) < Len(headlines)
    /\ LET h == headlines[Len(sentiments) + 1] IN
         IF ScoreRaises(h)
         THEN /\ pc' = "crashed"
              /\ UNCHANGED sentiments
         ELSE /\ sentiments' = Append(sentiments, Polarity(h.chars))
              /\ UNCHANGED pc
    /\ calls' = calls + 1
    /\ UNCHANGED <<ticker, fetchVars, countVars, short_labels, panelVars>>

\* df is built; pos, neg, neu
SummaryMetrics ==
    /\ pc = "score"
    /\ Len(sentiments) = Len(headlines)
    /\ pos' = CountPos(sentiments)
    /\ neg' = CountNeg(sentiments)
    /\ neu' = CountNeu(sentiments)
    /\ pc' = "charts"
    /\ UNCHANGED <<ticker, fetchVars, scoreVars, short_labels, panelVars>>

\* column 1: the labels of the bar chart
Charts ==
    /\ pc = "charts"
    /\ short_labels' = [i \in 1..Len(headlines) |-> ShortLabel(headlines[i].chars)]
    /\ pc' = "insights"
    /\ UNCHANGED <<ticker, fetchVars, scoreVars, countVars, panelVars>>

\* column 2: the Key Insights panel
KeyInsights ==
    /\ pc = "insights"
    /\ IF Len(headlines) = 0
       THEN /\ insights' = "nodata"
            /\ UNCHANGED <<avg_sentiment, overall_sentiment, banner, total>>
       ELSE /\ avg_sentiment' = Mean(sentiments)
            /\ overall_sentiment' = OverallSentiment(Mean(sentiments))
            /\ total' = Len(headlines)
            /\ banner' = Banner(Mean(sentiments))
            /\ insights' = "shown"
    /\ pc' = "done"
    /\ UNCHANGED <<ticker, fetchVars, scoreVars, countVars, short_labels>>

Next ==
    \/ ReadTicker
    \/ FetchNews
    \/ ScoreNext
    \/ SummaryMetrics
    \/ Charts
    \/ KeyInsights

Spec == Init /\ [][Next]_vars

\* ------------------------------------------------------------- properties
Fetched == pc \notin {"input", "fetch"}

Scored == pc \in {"charts", "insights", "done"}

\* the fetch raised, or it ended with no usable title
FetchFell ==
    \/ e # "none"
    \/ \A k \in 1..Len(news_items) : ~Truthy(Get(news_items[k]))

FourPlaceholders ==
    << Str(ticker \o SurgesText), Str(ticker \o FacesText),
       Str(ticker \o StableText), Str(NoNewsText \o ticker) >>

ProviderTitles == {Get(news_items[k]) : k \in 1..Len(news_items)}

\* C1: the headlines handed to scoring are exactly the four placeholders
\* templated with the ticker, in the fixed order, if and only if the fetch
\* raised (before or inside the item loop) or produced no usable title;
\* otherwise every headline is a provider title and none is a placeholder.
C1_PlaceholdersIffFetchFell ==
    Fetched =>
        /\ (headlines = FourPlaceholders) <=> FetchFell
        /\ ~FetchFell =>
              /\ headlines # <<>>
              /\ \A i \in 1..Len(headlines) :
                    /\ headlines[i] \in ProviderTitles
                    /\ \A j \in 1..4 : headlines[i] # FourPlaceholders[j]

\* the loop raised after it had already kept a provider title
C1_Witness ==
    /\ pc = "score"
    /\ e = "AttributeError"
    /\ Len(news_items) > 1
    /\ news_items[1].isdict
    /\ Truthy(Get(news_items[1]))
    /\ headlines = FourPlaceholders

InFallback == path \in {"empty", "except"}

\* C2: every run that ends in Fallback, by an exception or by a fetch with
\* no usable headline, shows the warning, and no run on live headlines does.
C2_FallbackIsWarned ==
    Fetched => (InFallback <=> warned)

\* C3: the three counts follow the rule > 0 / < 0 / = 0 and add up to the
\* number of articles reported, the length of the scored list.
C3_CountsPartition ==
    /\ Scored =>
          /\ pos = Cardinality({i \in 1..Len(sentiments) : sentiments[i] > 0})
          /\ neg = Cardinality({i \in 1..Len(sentiments) : sentiments[i] < 0})
          /\ neu = Cardinality({i \in 1..Len(sentiments) : sentiments[i] = 0})
          /\ pos + neg + neu = Len(headlines)
    /\ insights = "shown" => pos + neg + neu = total

C3_Witness ==
    /\ pc = "done"
    /\ pos > 0
    /\ neg > 0
    /\ neu > 0
    /\ pos + neg + neu = total

\* C4: the overall label is Positive when the mean is above 0.05, Negative
\* when it is below -0.05 and Neutral otherwise, a mean of exactly 0.05 or
\* -0.05 being Neutral; the banner agrees with the label.
C4_LabelFromMean ==
    insights = "shown" =>
        LET sum == SeqSum(sentiments)
            n == Len(sentiments)
        IN  /\ n > 0
            /\ sum > 5 * n =>
                  overall_sentiment = "Positive" /\ banner = "favorable"
            /\ sum < (-5) * n =>
                  overall_sentiment = "Negative" /\ banner = "unfavorable"
            /\ (sum <= 5 * n /\ sum >= (-5) * n) =>
                  overall_sentiment = "Neutral" /\ banner = "neutral"

\* a mean of exactly 0.05
C4_Witness ==
    /\ insights = "shown"
    /\ SeqSum(sentiments) = 5 * Len(sentiments)
    /\ overall_sentiment = "Neutral"
    /\ banner = "neutral"

\* C5: a scoring failure on one item is caught and never aborts the run.
C5_FailingItemNeverAborts ==
    pc # "crashed"

\* C6: every headline that reaches scoring has text that is non-empty after
\* trimming.
C6_HeadlinesNonBlank ==
    Fetched =>
        \A i \in 1..Len(headlines) :
            headlines[i].type = "str" =>
                \E k \in 1..Len(headlines[i].chars) : headlines[i].chars[k] # " "

\* C7: the ticker passed to the fetch and templated into the placeholders is
\* upper-case and non-empty.
C7_TickerUpperNonEmpty ==
    pc # "input" =>
        /\ ticker # <<>>
        /\ \A i \in 1..Len(ticker) :
              \A k \in DOMAIN LowerLetters : ticker[i] # LowerLetters[k]

\* positions of the provider items whose title is kept
KeptAt == {k \in 1..Len(news_items) : Truthy(Get(news_items[k]))}

\* the i-th smallest position of KeptAt
NthKept(i) == CHOOSE k \in KeptAt : Cardinality({j \in KeptAt : j < k}) = i - 1

\* C8: the scored list keeps the fetch order and is aligned by position:
\* live headlines are the kept provider titles in provider order, every
\* headline, live or placeholder, is scored exactly once, and the i-th
\* sentiment is the score of the i-th headline.
C8_OrderAndAlignment ==
    Scored =>
        /\ path = "live" =>
              /\ Len(headlines) = Cardinality(KeptAt)
              /\ \A i \in 1..Len(headlines) :
                    headlines[i] = Get(news_items[NthKept(i)])
        /\ Len(sentiments) = Len(headlines)
        /\ calls = Len(headlines)
        /\ \A i \in 1..Len(headlines) :
              sentiments[i] = Polarity(headlines[i].chars)

C8_Witness ==
    /\ pc = "done"
    /\ path = "live"
    /\ Len(headlines) > 2
    /\ Len(headlines) < Len(news_items)
    /\ sentiments[1] # sentiments[2]

\* C9: a run that reaches aggregation has between 1 and 20 scored items,
\* whatever the provider returned, so the mean is never taken over an empty
\* list and the "No news data" branch is not taken.
C9_ScoredBetween1And20 ==
    /\ Scored =>
          /\ Len(sentiments) >= 1
          /\ Len(sentiments) <= 20
    /\ insights # "nodata"
    /\ insights = "shown" =>
          /\ avg_sentiment.n >= 1
          /\ total >= 1
          /\ total <= 20

\* the provider returned more than 20 items
C9_Witness ==
    /\ pc = "done"
    /\ provided > 20
    /\ Len(sentiments) = 20

\* C10: a headline of at most 50 characters is its own label, a longer one
\* becomes its first 47 characters followed by "...", so no label is longer
\* than 50; the labels have the length and order of the headlines, and
\* building them changes neither the headlines nor the sentiments.
C10_LabelsArePureTruncation ==
    [][pc = "charts" =>
        /\ Len(short_labels') = Len(headlines)
        /\ \A i \in 1..Len(headlines) :
              LET h == headlines[i].chars
                  l == short_labels'[i]
              IN  /\ Len(l) <= 50
                  /\ Len(h) <= 50 => l = h
                  /\ Len(h) > 50 =>
                        /\ Len(l) = 50
                        /\ \A k \in 1..47 : l[k] = h[k]
                        /\ \A k \in 48..50 : l[k] = "."
        /\ headlines' = headlines
        /\ sentiments' = sentiments]_vars

\* one headline of exactly 50 characters kept whole, one longer shortened
C10_Witness ==
    /\ pc = "insights"
    /\ \E i, j \in 1..Len(headlines) :
          /\ Len(headlines[i].chars) = 50
          /\ short_labels[i] = headlines[i].chars
          /\ Len(headlines[j].chars) > 50
          /\ Len(short_labels[j]) = 50

====
